---- MODULE Spec2Model ----
(***************************************************************************)
(* MutaFuzz Python scripting environment (ScriptEnvironment.py) and the    *)
(* bundled scripts (scripts/00x_*.py).                                     *)
(*                                                                         *)
(* Conventions of the translation                                          *)
(*   - a Python str is a sequence of one-character strings; a Python list  *)
(*     is a sequence;                                                      *)
(*   - an optional value is None == <<>> or Some(v) == <<v>>;              *)
(*   - the engine (the Java `handler` object) is observed through `calls`, *)
(*     the sequence of calls the Python code makes on it.                  *)
(***************************************************************************)
EXTENDS Integers, Sequences, FiniteSets, TLC

VARIABLES
    \* ---- QueueBuilder / engine ----
    builder,          \* the QueueBuilder instance under construction (its five fields)
    currentTemplate,  \* what handler.getCurrentTemplateRequest() returns: None or Some(request)
    calls,            \* engine calls made so far, in order
    lastOp,           \* name of the last QueueBuilder method that ran
    lastCalls,        \* the engine calls that method made
    error,            \* exception raised by that method ("" when it returned)
    \* ---- filter decorators around handle_response ----
    stack,            \* decorators applied so far; stack[1] was applied first (it is
                      \* the one written closest to the def), stack[Len] last
    delivered,        \* the response handle_response was last called with (None: not yet)
    evalLog,          \* indices into stack of the wrappers that tested it, in order
    handlerCalls,     \* how often the undecorated handler ran for it
    \* ---- a run of one script's queue_tasks() ----
    script,           \* which script runs ("000", "001", "002", "003", "005c", "005l", "006")
    pc,               \* where queue_tasks() is; "returned" / "raised" once it has ended
    wordlist1,        \* _wordlist_1, _wordlist_2, _wordlist_3: None or Some(list of str)
    wordlist2,
    wordlist3,
    rawHttpList,      \* _java_raw_http_list: None or Some(list of HttpRequestResponse)
    flags,            \* 000_default.py: UPPERCASE, LOWERCASE, UPPER_FIRST_CHAR
    rng,              \* state of Python's random generator
    locals,           \* local variables of queue_tasks()
    \* ---- state shared with the engine's threads ----
    should_stop,      \* the global _should_stop
    session,          \* the engine's session map: key -> value, for the keys present
    threads,          \* the handler invocations running on the engine's worker threads
    responded         \* indices into calls of the tasks whose response was handled, in order

builderVars == <<builder, currentTemplate, calls, lastOp, lastCalls, error>>

filterVars == <<stack, delivered, evalLog, handlerCalls>>

configVars == <<script, wordlist1, wordlist2, wordlist3, rawHttpList, flags>>

\* what a step of a script leaves alone besides its own variables
sharedVars == <<should_stop, session, threads, responded>>

scriptFrame == <<script, wordlist1, wordlist2, wordlist3, rawHttpList, flags,
                 builder, lastOp, lastCalls, error,
                 stack, delivered, evalLog, handlerCalls, sharedVars>>

scriptVars == <<script, pc, wordlist1, wordlist2, wordlist3, rawHttpList, flags, rng, locals,
                sharedVars>>

vars == <<builder, currentTemplate, calls, lastOp, lastCalls, error,
          stack, delivered, evalLog, handlerCalls,
          script, pc, wordlist1, wordlist2, wordlist3, rawHttpList, flags, rng, locals,
          should_stop, session, threads, responded>>

----------------------------------------------------------------------------
(* Python values *)

None == <<>>

Some(v) == <<v>>

\* bool(x) for x a str or list held in an optional: None, "" and [] are falsy
TruthySeq(o) == o # None /\ Len(o[1]) > 0

\* bool(x) for x an opaque Java object held in an optional: only None is falsy
TruthyObj(o) == o # None

\* [x] * n
Repeat(x, n) == [k \in 1..n |-> x]

\* HttpRequest.toString(): the raw text of the request
toString(req) == req.raw

UpperCase == <<"A", "B", "C", "D", "E", "F", "G", "H", "I", "J", "K", "L", "M",
               "N", "O", "P", "Q", "R", "S", "T", "U", "V", "W", "X", "Y", "Z">>

LowerCase == <<"a", "b", "c", "d", "e", "f", "g", "h", "i", "j", "k", "l", "m",
               "n", "o", "p", "q", "r", "s", "t", "u", "v", "w", "x", "y", "z">>

LowerChar(c) ==
    IF \E i \in 1..26 : UpperCase[i] = c
    THEN LowerCase[CHOOSE i \in 1..26 : UpperCase[i] = c]
    ELSE c

UpperChar(c) ==
    IF \E i \in 1..26 : LowerCase[i] = c
    THEN UpperCase[CHOOSE i \in 1..26 : LowerCase[i] = c]
    ELSE c

\* str.lower(), str.upper()
lower(str) == [i \in 1..Len(str) |-> LowerChar(str[i])]

upper(str) == [i \in 1..Len(str) |-> UpperChar(str[i])]

\* str.capitalize(): first character upper-cased, the rest lower-cased
capitalize(str) ==
    [i \in 1..Len(str) |-> IF i = 1 THEN UpperChar(str[i]) ELSE LowerChar(str[i])]

\* `sub in str`
In(sub, str) ==
    \E i \in 0..(Len(str) - Len(sub)) : SubSeq(str, i + 1, i + Len(sub)) = sub

\* `x in list`
Member(x, list) == \E i \in 1..Len(list) : list[i] = x

----------------------------------------------------------------------------
(* filter: ScriptEnvironment.py lines 16-108 *)

\* a decorator with its arguments; fields a kind does not use are empty
Filter(kind, codes, min, max, keywords, pattern, ignore_case) ==
    [kind |-> kind, codes |-> codes, min |-> min, max |-> max,
     keywords |-> keywords, pattern |-> pattern, ignore_case |-> ignore_case]

\* if not isinstance(codes, (list, tuple)): codes = [codes]
filter_status(isList, codes) ==
    Filter("status", IF isList THEN codes ELSE <<codes>>, None, None, << >>, << >>, FALSE)

filter_status_not(isList, codes) ==
    Filter("status_not", IF isList THEN codes ELSE <<codes>>, None, None, << >>, << >>, FALSE)

filter_interesting ==
    Filter("interesting", << >>, None, None, << >>, << >>, FALSE)

filter_length_range(min, max) ==
    Filter("length_range", << >>, min, max, << >>, << >>, FALSE)

filter_contains(keywords) ==
    Filter("contains", << >>, None, None, keywords, << >>, FALSE)

\* the pattern is an alternation lit1|lit2|... of literals, given as its alternatives
filter_matches(pattern, ignore_case) ==
    Filter("matches", << >>, None, None, << >>, pattern, ignore_case)

\* re.search(pattern, body, flags) for an alternation of literals
re_search(pattern, body, ignore_case) ==
    \E i \in 1..Len(pattern) :
        IF ignore_case THEN In(lower(pattern[i]), lower(body)) ELSE In(pattern[i], body)

\* req.text if req.text else ""
BodyOrEmpty(req) == IF TruthySeq(req.text) THEN req.text[1] ELSE << >>

\* the wrappers' tests with length_range excluding its two bounds
Predicate_StrictBounds(f, req) ==
    CASE f.kind = "status" -> Member(req.status, f.codes)
      [] f.kind = "status_not" -> ~Member(req.status, f.codes)
      [] f.kind = "interesting" -> req.interesting
      [] f.kind = "length_range" ->
            /\ (f.min = None \/ req.length > f.min[1])
            /\ (f.max = None \/ req.length < f.max[1])
      [] f.kind = "contains" ->
            \A i \in 1..Len(f.keywords) : In(lower(f.keywords[i]), lower(BodyOrEmpty(req)))
      [] f.kind = "matches" -> re_search(f.pattern, BodyOrEmpty(req), f.ignore_case)

\* the `if` of each decorator's wrapper
Predicate(f, req) ==
    CASE f.kind = "status" -> Member(req.status, f.codes)
      [] f.kind = "status_not" -> ~Member(req.status, f.codes)
      [] f.kind = "interesting" -> req.interesting
      [] f.kind = "length_range" ->
            /\ (f.min = None \/ req.length >= f.min[1])
            /\ (f.max = None \/ req.length <= f.max[1])
      [] f.kind = "contains" ->
            \A i \in 1..Len(f.keywords) : In(lower(f.keywords[i]), lower(BodyOrEmpty(req)))
      [] f.kind = "matches" -> re_search(f.pattern, BodyOrEmpty(req), f.ignore_case)

RECURSIVE Wrapper_TestsInnermostFirst(_, _, _)
\* the wrappers called in the order they were applied
Wrapper_TestsInnermostFirst(st, k, req) ==
    IF k = 0
    THEN [evals |-> << >>, handled |-> 1]
    ELSE LET j == Len(st) - k + 1 IN
         IF Predicate(st[j], req)
         THEN LET r == Wrapper_TestsInnermostFirst(st, k - 1, req) IN
              [evals |-> <<j>> \o r.evals, handled |-> r.handled]
         ELSE [evals |-> <<j>>, handled |-> 0]

RECURSIVE Wrapper_FallsThrough(_, _, _)
\* wrappers whose func(req) call is not under the `if`
Wrapper_FallsThrough(st, k, req) ==
    IF k = 0
    THEN [evals |-> << >>, handled |-> 1]
    ELSE LET r == Wrapper_FallsThrough(st, k - 1, req) IN
         [evals |-> <<k>> \o r.evals, handled |-> r.handled]

RECURSIVE Wrapper(_, _, _)
\* Calling the function produced by decorators st[1..k] (st[k] outermost) with
\* req: the wrapper of st[k] runs, tests its predicate and, if it holds, calls
\* the function it wraps; k = 0 is the undecorated handler.
Wrapper(st, k, req) ==
    IF k = 0
    THEN [evals |-> << >>, handled |-> 1]
    ELSE IF Predicate(st[k], req)
         THEN LET r == Wrapper(st, k - 1, req) IN
              [evals |-> <<k>> \o r.evals, handled |-> r.handled]
         ELSE [evals |-> <<k>>, handled |-> 0]

\* handle_response(req) as the engine calls it: the outermost function
handle_response(st, req) == Wrapper(st, Len(st), req)

----------------------------------------------------------------------------
(* QueueBuilder: ScriptEnvironment.py lines 111-194 *)

\* a builder that starts in learn group 1
QueueBuilder_init_Group1 ==
    [url |-> None, template |-> None, payloads |-> None,
     learn_group |-> 1, http_request |-> None]

QueueBuilder_init ==
    [url |-> None, template |-> None, payloads |-> None,
     learn_group |-> 0, http_request |-> None]

QueueBuilder_url(b, u) == [b EXCEPT !.url = Some(u)]

QueueBuilder_raw_request(b, t) == [b EXCEPT !.template = Some(t)]

\* payloads if isinstance(payloads, list) else [payloads]
QueueBuilder_payloads(b, isList, p) ==
    [b EXCEPT !.payloads = Some(IF isList THEN p ELSE <<p>>)]

QueueBuilder_learn_group(b, g) == [b EXCEPT !.learn_group = g]

QueueBuilder_http_request(b, r) == [b EXCEPT !.http_request = r]

QueueBuilder_current_template(b, cur) == [b EXCEPT !.http_request = cur]

\* one call on the engine; arguments a method does not take are None
Call(op, req, u, t, p, g) ==
    [op |-> op, http_request |-> req, url |-> u, template |-> t,
     payloads |-> p, learn_group |-> g]

\* queue() whose last branch enqueues by URL without testing the URL
QueueBuilder_queue_NoUrlTest(b, cur) ==
    IF TruthyObj(b.http_request)
    THEN << Call("queueHttpRequest", b.http_request, None, None, None, Some(b.learn_group)) >>
    ELSE IF TruthySeq(b.template)
    THEN << Call("queueRawTemplate", None, b.url, b.template, b.payloads, Some(b.learn_group)) >>
    ELSE IF TruthySeq(b.payloads)
    THEN IF TruthyObj(cur)
         THEN << Call("queueRawTemplate", None, None, Some(toString(cur[1])),
                      b.payloads, Some(b.learn_group)) >>
         ELSE << Call("queuePayloads", None, None, None, b.payloads, Some(b.learn_group)) >>
    ELSE << Call("queueUrl", None, b.url, None, None, Some(b.learn_group)) >>

\* queue() that, like send(), enqueues a raw template only when payloads are given
QueueBuilder_queue_RequiresPayloads(b, cur) ==
    IF TruthyObj(b.http_request)
    THEN << Call("queueHttpRequest", b.http_request, None, None, None, Some(b.learn_group)) >>
    ELSE IF TruthySeq(b.template)
    THEN IF ~TruthySeq(b.payloads)
         THEN << >>
         ELSE << Call("queueRawTemplate", None, b.url, b.template, b.payloads,
                      Some(b.learn_group)) >>
    ELSE IF TruthySeq(b.payloads)
    THEN IF TruthyObj(cur)
         THEN << Call("queueRawTemplate", None, None, Some(toString(cur[1])),
                      b.payloads, Some(b.learn_group)) >>
         ELSE << Call("queuePayloads", None, None, None, b.payloads, Some(b.learn_group)) >>
    ELSE IF TruthySeq(b.url)
    THEN << Call("queueUrl", None, b.url, None, None, Some(b.learn_group)) >>
    ELSE << >>

\* queue() that tests only whether payloads() was called, not whether the list is empty
QueueBuilder_queue_EmptyPayloads(b, cur) ==
    IF TruthyObj(b.http_request)
    THEN << Call("queueHttpRequest", b.http_request, None, None, None, Some(b.learn_group)) >>
    ELSE IF TruthySeq(b.template)
    THEN << Call("queueRawTemplate", None, b.url, b.template, b.payloads, Some(b.learn_group)) >>
    ELSE IF b.payloads # None
    THEN IF TruthyObj(cur)
         THEN << Call("queueRawTemplate", None, None, Some(toString(cur[1])),
                      b.payloads, Some(b.learn_group)) >>
         ELSE << Call("queuePayloads", None, None, None, b.payloads, Some(b.learn_group)) >>
    ELSE IF TruthySeq(b.url)
    THEN << Call("queueUrl", None, b.url, None, None, Some(b.learn_group)) >>
    ELSE << >>

\* send() that hands the builder's learn group to the engine, as queue() does
QueueBuilder_send_WithLearnGroup(b) ==
    IF TruthyObj(b.http_request)
    THEN [calls |-> << Call("sendHttpRequest", b.http_request, None, None, None,
                            Some(b.learn_group)) >>,
          error |-> ""]
    ELSE IF TruthySeq(b.template)
    THEN IF ~TruthySeq(b.payloads)
         THEN [calls |-> << >>, error |-> "ValueError"]
         ELSE [calls |-> << Call("sendRawTemplate", None, b.url, b.template, b.payloads,
                                 Some(b.learn_group)) >>,
               error |-> ""]
    ELSE IF TruthySeq(b.payloads)
    THEN [calls |-> << Call("sendPayloads", None, None, None, b.payloads,
                            Some(b.learn_group)) >>,
          error |-> ""]
    ELSE IF TruthySeq(b.url)
    THEN [calls |-> << Call("sendUrl", None, b.url, None, None, Some(b.learn_group)) >>,
          error |-> ""]
    ELSE [calls |-> << >>, error |-> "ValueError"]

\* queue() with the payloads test placed before the raw-template test
QueueBuilder_queue_PayloadsFirst(b, cur) ==
    IF TruthyObj(b.http_request)
    THEN << Call("queueHttpRequest", b.http_request, None, None, None, Some(b.learn_group)) >>
    ELSE IF TruthySeq(b.payloads)
    THEN IF TruthyObj(cur)
         THEN << Call("queueRawTemplate", None, None, Some(toString(cur[1])),
                      b.payloads, Some(b.learn_group)) >>
         ELSE << Call("queuePayloads", None, None, None, b.payloads, Some(b.learn_group)) >>
    ELSE IF TruthySeq(b.template)
    THEN << Call("queueRawTemplate", None, b.url, b.template, b.payloads, Some(b.learn_group)) >>
    ELSE IF TruthySeq(b.url)
    THEN << Call("queueUrl", None, b.url, None, None, Some(b.learn_group)) >>
    ELSE << >>

\* the engine calls queue() makes on builder b when the active template is cur
QueueBuilder_queue(b, cur) ==
    IF TruthyObj(b.http_request)
    THEN << Call("queueHttpRequest", b.http_request, None, None, None, Some(b.learn_group)) >>
    ELSE IF TruthySeq(b.template)
    THEN << Call("queueRawTemplate", None, b.url, b.template, b.payloads, Some(b.learn_group)) >>
    ELSE IF TruthySeq(b.payloads)
    THEN IF TruthyObj(cur)
         THEN << Call("queueRawTemplate", None, None, Some(toString(cur[1])),
                      b.payloads, Some(b.learn_group)) >>
         ELSE << Call("queuePayloads", None, None, None, b.payloads, Some(b.learn_group)) >>
    ELSE IF TruthySeq(b.url)
    THEN << Call("queueUrl", None, b.url, None, None, Some(b.learn_group)) >>
    ELSE << >>

\* send() without the "raw_request() requires payloads()" check
QueueBuilder_send_NoPayloadCheck(b) ==
    IF TruthyObj(b.http_request)
    THEN [calls |-> << Call("sendHttpRequest", b.http_request, None, None, None, None) >>,
          error |-> ""]
    ELSE IF TruthySeq(b.template)
    THEN [calls |-> << Call("sendRawTemplate", None, b.url, b.template, b.payloads, None) >>,
          error |-> ""]
    ELSE IF TruthySeq(b.payloads)
    THEN [calls |-> << Call("sendPayloads", None, None, None, b.payloads, None) >>,
          error |-> ""]
    ELSE IF TruthySeq(b.url)
    THEN [calls |-> << Call("sendUrl", None, b.url, None, None, None) >>, error |-> ""]
    ELSE [calls |-> << >>, error |-> "ValueError"]

\* send(): [calls |-> the engine calls made, error |-> the exception raised or ""]
QueueBuilder_send(b) ==
    IF TruthyObj(b.http_request)
    THEN [calls |-> << Call("sendHttpRequest", b.http_request, None, None, None, None) >>,
          error |-> ""]
    ELSE IF TruthySeq(b.template)
    THEN IF ~TruthySeq(b.payloads)
         THEN [calls |-> << >>, error |-> "ValueError"]
         ELSE [calls |-> << Call("sendRawTemplate", None, b.url, b.template, b.payloads, None) >>,
               error |-> ""]
    ELSE IF TruthySeq(b.payloads)
    THEN [calls |-> << Call("sendPayloads", None, None, None, b.payloads, None) >>,
          error |-> ""]
    ELSE IF TruthySeq(b.url)
    THEN [calls |-> << Call("sendUrl", None, b.url, None, None, None) >>, error |-> ""]
    ELSE [calls |-> << >>, error |-> "ValueError"]

----------------------------------------------------------------------------
(* FuzzerAPI, payloads, templates, utils: ScriptEnvironment.py lines 197-420 *)

FuzzerAPI_url(u) == QueueBuilder_url(QueueBuilder_init, u)

FuzzerAPI_payloads(p) == QueueBuilder_payloads(QueueBuilder_init, TRUE, p)

FuzzerAPI_http_request(r) == QueueBuilder_http_request(QueueBuilder_init, r)

\* fuzz.done(): handler.done()
FuzzerAPI_done == << Call("done", None, None, None, None, None) >>

\* table.add(req): handler.addToTable(req)
table_add(req) == << Call("addToTable", Some(req), None, None, None, None) >>

_get_payloads_1 == IF wordlist1 # None THEN wordlist1[1] ELSE << >>

_get_payloads_2 == IF wordlist2 # None THEN wordlist2[1] ELSE << >>

_get_payloads_3 == IF wordlist3 # None THEN wordlist3[1] ELSE << >>

payloads_wordlist(num) ==
    CASE num = 1 -> _get_payloads_1
      [] num = 2 -> _get_payloads_2
      [] num = 3 -> _get_payloads_3
      [] OTHER -> << >>

templates_all == IF rawHttpList # None THEN rawHttpList[1] ELSE << >>

\* string.ascii_lowercase + string.digits
Candidates ==
    LowerCase \o <<"0", "1", "2", "3", "4", "5", "6", "7", "8", "9">>

\* random.choice(candidates): the generator steps (a linear congruential step
\* stands for the Mersenne Twister) and its output picks the element
random_step(r) == (r * 21 + 7) % 64

random_choice(seq, r) == seq[(random_step(r) % Len(seq)) + 1]

RECURSIVE utils_randstr(_, _)
\* utils.randstr(length, digits=True): [str |-> the string, rng |-> the generator afterwards]
utils_randstr(length, r) ==
    IF length = 0
    THEN [str |-> << >>, rng |-> r]
    ELSE LET rest == utils_randstr(length - 1, random_step(r)) IN
         [str |-> <<random_choice(Candidates, r)>> \o rest.str, rng |-> rest.rng]

\* utils.http_request_from_url(url): a request whose raw text is the request line
utils_http_request_from_url(u) == [raw |-> <<"GET", u>>, params |-> << >>]

\* HttpRequest.withHeader(name, value)
withHeader(req, name, value) == [req EXCEPT !.raw = @ \o <<name, value>>]

\* HttpRequest.withUpdatedParameters(HttpParameter.parameter(name, value, type))
withUpdatedParameters(req, name, value, type) ==
    [req EXCEPT !.params =
        [k \in 1..Len(@) |->
            IF @[k].name = name /\ @[k].type = type
            THEN [@[k] EXCEPT !.value = value]
            ELSE @[k]]]

RECURSIVE CountFrom(_, _, _)
\* str.count(sub): non-overlapping occurrences, scanning from position i
CountFrom(str, sub, i) ==
    IF i + Len(sub) - 1 > Len(str)
    THEN 0
    ELSE IF SubSeq(str, i, i + Len(sub) - 1) = sub
         THEN 1 + CountFrom(str, sub, i + Len(sub))
         ELSE CountFrom(str, sub, i + 1)

count(str, sub) == CountFrom(str, sub, 1)

Digits == <<"0", "1", "2", "3", "4", "5", "6", "7", "8", "9">>

RECURSIVE str(_)
\* str(num) for num >= 0
str(num) ==
    IF num < 10
    THEN << Digits[num + 1] >>
    ELSE str(num \div 10) \o << Digits[(num % 10) + 1] >>

\* str.zfill(width) of a string without sign
zfill(text, width) ==
    IF Len(text) >= width THEN text ELSE Repeat("0", width - Len(text)) \o text

RECURSIVE product_FirstFastest(_)
\* a product in which the first list varies fastest
product_FirstFastest(lists) ==
    IF Len(lists) = 0
    THEN << << >> >>
    ELSE LET rest == product_FirstFastest(Tail(lists))
             first == Head(lists)
             m == Len(first)
         IN [k \in 1..(m * Len(rest)) |->
                <<first[((k - 1) % m) + 1]>> \o rest[((k - 1) \div m) + 1]]

RECURSIVE product(_)
\* itertools.product(*lists): the first list varies slowest; product() of no
\* list is the one empty tuple
product(lists) ==
    IF Len(lists) = 0
    THEN << << >> >>
    ELSE LET rest == product(Tail(lists))
             first == Head(lists)
             n == Len(rest)
         IN [k \in 1..(Len(first) * n) |->
                <<first[((k - 1) \div n) + 1]>> \o rest[((k - 1) % n) + 1]]

RECURSIVE extend_all(_)
\* all_payloads = []; for wordlist in wordlists: all_payloads.extend(wordlist)
extend_all(lists) ==
    IF Len(lists) = 0 THEN << >> ELSE Head(lists) \o extend_all(Tail(lists))

----------------------------------------------------------------------------
(* scripts/000_default.py *)

\* get_marker_count(), lines 35-40
get_marker_count(cur) ==
    IF TruthyObj(cur) THEN count(toString(cur[1]), <<"%", "s">>) ELSE 1

\* lines 48-54: the configured wordlists that are not empty, in order
collect_wordlists ==
    (IF Len(payloads_wordlist(1)) > 0 THEN << payloads_wordlist(1) >> ELSE << >>)
    \o (IF Len(payloads_wordlist(2)) > 0 THEN << payloads_wordlist(2) >> ELSE << >>)
    \o (IF Len(payloads_wordlist(3)) > 0 THEN << payloads_wordlist(3) >> ELSE << >>)

\* lines 61-78: the payload of the calibration statement of learn group g in
\* the iteration with loop variable i: [str |-> payload, rng |-> generator afterwards]
calibration_payload(g, i, r) ==
    LET rs == utils_randstr(i, r) IN
    CASE g = 1 -> rs
      [] g = 2 -> [rs EXCEPT !.str = @ \o <<"/">>]
      [] g = 3 -> [rs EXCEPT !.str = <<"a", "d", "m", "i", "n">> \o @]
      [] g = 4 -> [rs EXCEPT !.str = <<".", "h", "t", "a", "c", "c", "e", "s", "s">> \o @]
      [] g = 5 -> [str |-> Repeat("A", 1000 + i), rng |-> r]

\* the statement of group 4 pasted from that of group 3 with its id unchanged
calibration_group_Pasted(g) == IF g = 4 THEN 3 ELSE g

\* the learn group each calibration statement passes to learn_group()
calibration_group(g) == g

\* the case transformation with the lowercase test placed first
apply_transformations_LowercaseFirst(payload) ==
    IF flags.LOWERCASE THEN lower(payload)
    ELSE IF flags.UPPERCASE THEN upper(payload)
    ELSE IF flags.UPPER_FIRST_CHAR THEN capitalize(payload)
    ELSE payload

\* lines 92-97 and 104-109: the case transformation of one payload
apply_transformations(payload) ==
    IF flags.UPPERCASE THEN upper(payload)
    ELSE IF flags.LOWERCASE THEN lower(payload)
    ELSE IF flags.UPPER_FIRST_CHAR THEN capitalize(payload)
    ELSE payload

\* line 99 without `* marker_count`
battering_ram_queue_NoRepeat(payload, marker_count, cur) ==
    QueueBuilder_queue(FuzzerAPI_payloads(<<apply_transformations(payload)>>), cur)

\* line 99: fuzz.payloads([payload] * marker_count).queue()
battering_ram_queue(payload, marker_count, cur) ==
    QueueBuilder_queue(
        FuzzerAPI_payloads(Repeat(apply_transformations(payload), marker_count)), cur)

\* line 111: fuzz.payloads(list(combination)).queue()
pitchfork_queue(combination, cur) ==
    QueueBuilder_queue(
        FuzzerAPI_payloads(
            [k \in 1..Len(combination) |-> apply_transformations(combination[k])]), cur)

\* the pc after one iteration of a for loop over n items that was at position idx
AfterIteration(n, idx) == IF idx >= n THEN "done" ELSE "loop"

\* lines 47-56
Start000 ==
    /\ script = "000"
    /\ pc = "start"
    /\ locals' = [locals EXCEPT !.wordlists = collect_wordlists,
                                !.marker_count = get_marker_count(currentTemplate),
                                !.i = 6, !.g = 1]
    /\ pc' = "calibrate"
    /\ UNCHANGED <<calls, currentTemplate, rng, scriptFrame>>

\* one statement of the body of `for i in range(6, 12, 3)`, lines 60-79
Calibrate ==
    /\ script = "000"
    /\ pc = "calibrate"
    /\ LET p == calibration_payload(locals.g, locals.i, rng)
           b == QueueBuilder_learn_group(
                    FuzzerAPI_payloads(Repeat(p.str, locals.marker_count)),
                    calibration_group(locals.g))
       IN /\ calls' = calls \o QueueBuilder_queue(b, currentTemplate)
          /\ rng' = p.rng
    /\ IF locals.g < 5
       THEN /\ locals' = [locals EXCEPT !.g = @ + 1]
            /\ pc' = pc
       ELSE /\ locals' = [locals EXCEPT !.g = 1, !.i = @ + 3]
            /\ pc' = IF locals.i + 3 < 12 THEN pc ELSE "sleep"
    /\ UNCHANGED <<currentTemplate, scriptFrame>>

\* line 81, and the iterable of the main loop (lines 84-90, 102)
Sleep ==
    /\ script = "000"
    /\ pc = "sleep"
    /\ LET its == IF locals.marker_count > 1
                  THEN extend_all(locals.wordlists)
                  ELSE product(locals.wordlists)
       IN /\ locals' = [locals EXCEPT !.items = its, !.idx = 1, !.mainStart = Len(calls)]
          /\ pc' = AfterIteration(Len(its), 0)
    /\ UNCHANGED <<calls, currentTemplate, rng, scriptFrame>>

\* one iteration of `for payload in all_payloads`, lines 90-99
BatteringRam ==
    /\ script = "000"
    /\ pc = "loop"
    /\ locals.marker_count > 1
    /\ calls' = calls \o battering_ram_queue(locals.items[locals.idx],
                                             locals.marker_count, currentTemplate)
    /\ locals' = [locals EXCEPT !.idx = @ + 1]
    /\ pc' = AfterIteration(Len(locals.items), locals.idx)
    /\ UNCHANGED <<currentTemplate, rng, scriptFrame>>

\* one iteration of `for combination in product(*wordlists)`, lines 102-111
Pitchfork ==
    /\ script = "000"
    /\ pc = "loop"
    /\ ~(locals.marker_count > 1)
    /\ calls' = calls \o pitchfork_queue(locals.items[locals.idx], currentTemplate)
    /\ locals' = [locals EXCEPT !.idx = @ + 1]
    /\ pc' = AfterIteration(Len(locals.items), locals.idx)
    /\ UNCHANGED <<currentTemplate, rng, scriptFrame>>

\* fuzz.done(), the last statement of every queue_tasks()
done ==
    /\ pc = "done"
    /\ calls' = calls \o FuzzerAPI_done
    /\ pc' = "returned"
    /\ UNCHANGED <<currentTemplate, rng, locals, scriptFrame>>

----------------------------------------------------------------------------
(* scripts/001_urls.py *)

Start001 ==
    /\ script = "001"
    /\ pc = "start"
    /\ locals' = [locals EXCEPT !.items = payloads_wordlist(1), !.idx = 1]
    /\ pc' = AfterIteration(Len(payloads_wordlist(1)), 0)
    /\ UNCHANGED <<calls, currentTemplate, rng, scriptFrame>>

\* line 24: fuzz.url(url).queue()
Queue001 ==
    /\ script = "001"
    /\ pc = "loop"
    /\ calls' = calls \o QueueBuilder_queue(FuzzerAPI_url(locals.items[locals.idx]),
                                            currentTemplate)
    /\ locals' = [locals EXCEPT !.idx = @ + 1]
    /\ pc' = AfterIteration(Len(locals.items), locals.idx)
    /\ UNCHANGED <<currentTemplate, rng, scriptFrame>>

----------------------------------------------------------------------------
(* scripts/002_url_parameter_injection.py *)

MIN == 0

MAX == 100

STEP == 1

ZFILL == 0

\* list(range(lo, hi, step)) for step > 0
range(lo, hi, step) ==
    LET n == IF hi > lo THEN (hi - lo + step - 1) \div step ELSE 0 IN
    [k \in 1..n |-> lo + (k - 1) * step]

Start002 ==
    /\ script = "002"
    /\ pc = "start"
    /\ locals' = [locals EXCEPT !.items = range(MIN, MAX, STEP), !.idx = 1]
    /\ pc' = AfterIteration(Len(range(MIN, MAX, STEP)), 0)
    /\ UNCHANGED <<calls, currentTemplate, rng, scriptFrame>>

\* lines 29-30
Queue002 ==
    /\ script = "002"
    /\ pc = "loop"
    /\ LET num == locals.items[locals.idx]
           payload == IF ZFILL > 0 THEN zfill(str(num), ZFILL) ELSE str(num)
       IN calls' = calls \o QueueBuilder_queue(FuzzerAPI_payloads(<<payload>>),
                                               currentTemplate)
    /\ locals' = [locals EXCEPT !.idx = @ + 1]
    /\ pc' = AfterIteration(Len(locals.items), locals.idx)
    /\ UNCHANGED <<currentTemplate, rng, scriptFrame>>

----------------------------------------------------------------------------
(* scripts/003_inject_url_params.py *)

\* line 12: encode.url("xsstest'\"<>\\"), computed by the engine
PAYLOAD == "xsstest%27%22%3C%3E%5C"

RECURSIVE inject_params(_, _, _)
\* lines 25-30 from parameter k on: the engine calls made until the loop ends
\* or a call on a parameter raises (param.fault)
inject_params(request, all_params, k) ==
    IF k > Len(all_params)
    THEN << >>
    ELSE IF all_params[k].fault
    THEN << >>
    ELSE IF all_params[k].type = "URL"
    THEN QueueBuilder_queue(
             FuzzerAPI_http_request(
                 Some(withUpdatedParameters(request, all_params[k].name, PAYLOAD,
                                            all_params[k].type))), None)
         \o inject_params(request, all_params, k + 1)
    ELSE inject_params(request, all_params, k + 1)

\* lines 18-32 for one req_resp: request.parameters() raises (req_resp.fault),
\* returns nothing, or returns the parameters to inject into; the bare except
\* swallows whatever is raised
inject_item(req_resp) ==
    IF req_resp.fault
    THEN << >>
    ELSE IF Len(req_resp.request.params) = 0
    THEN << >>
    ELSE inject_params(req_resp.request, req_resp.request.params, 1)

Start003 ==
    /\ script = "003"
    /\ pc = "start"
    /\ locals' = [locals EXCEPT !.items = templates_all, !.idx = 1]
    /\ pc' = AfterIteration(Len(templates_all), 0)
    /\ UNCHANGED <<calls, currentTemplate, rng, scriptFrame>>

\* one iteration of the loop without the try/except: what an item raises ends
\* queue_tasks()
Inject003_NoTry ==
    /\ script = "003"
    /\ pc = "loop"
    /\ calls' = calls \o inject_item(locals.items[locals.idx])
    /\ locals' = [locals EXCEPT !.idx = @ + 1]
    /\ LET req_resp == locals.items[locals.idx]
           raises == \/ req_resp.fault
                     \/ \E k \in 1..Len(req_resp.request.params) :
                           req_resp.request.params[k].fault
       IN pc' = IF raises THEN "raised" ELSE AfterIteration(Len(locals.items), locals.idx)
    /\ UNCHANGED <<currentTemplate, rng, scriptFrame>>

Inject003 ==
    /\ script = "003"
    /\ pc = "loop"
    /\ calls' = calls \o inject_item(locals.items[locals.idx])
    /\ locals' = [locals EXCEPT !.idx = @ + 1]
    /\ pc' = AfterIteration(Len(locals.items), locals.idx)
    /\ UNCHANGED <<currentTemplate, rng, scriptFrame>>

----------------------------------------------------------------------------
(* scripts/005_custom_http_requests.py *)

Custom005 ==
    /\ script = "005c"
    /\ pc = "start"
    /\ LET req == withHeader(utils_http_request_from_url("https://httpbin.org/anything"),
                             "User-Agent", "CustomFuzzer/1.0")
       IN calls' = calls \o QueueBuilder_queue(FuzzerAPI_http_request(Some(req)),
                                               currentTemplate)
    /\ pc' = "done"
    /\ UNCHANGED <<currentTemplate, rng, locals, scriptFrame>>

----------------------------------------------------------------------------
(* scripts/005_request_list.py *)

Start005 ==
    /\ script = "005l"
    /\ pc = "start"
    /\ locals' = [locals EXCEPT !.items = templates_all, !.idx = 1]
    /\ pc' = AfterIteration(Len(templates_all), 0)
    /\ UNCHANGED <<calls, currentTemplate, rng, scriptFrame>>

\* line 24: fuzz.http_request(req_resp.request()).queue()
Queue005 ==
    /\ script = "005l"
    /\ pc = "loop"
    /\ calls' = calls \o QueueBuilder_queue(
                    FuzzerAPI_http_request(Some(locals.items[locals.idx].request)),
                    currentTemplate)
    /\ locals' = [locals EXCEPT !.idx = @ + 1]
    /\ pc' = AfterIteration(Len(locals.items), locals.idx)
    /\ UNCHANGED <<currentTemplate, rng, scriptFrame>>

----------------------------------------------------------------------------
(* scripts/006_synchronous_request_chaining.py *)

\* what the engine can answer to a synchronous call: a failure (the exception
\* propagates to the caller) or a response
SendOutcomes ==
    { None } \cup
    { Some([status |-> st, body |-> b]) :
        st \in { 200, 500 }, b \in { "{\"uuid\": \"u1\"}", "{}", "<html>" } }

\* json.loads(body) on the bodies above: None when it raises, else the dict
json_loads(body) ==
    CASE body = "{\"uuid\": \"u1\"}" -> Some([uuid |-> Some("u1")])
      [] body = "{}" -> Some([uuid |-> None])
      [] OTHER -> None

\* data.get("uuid", "fallback-id")
get_uuid(data) == IF data.uuid # None THEN data.uuid[1] ELSE "fallback-id"

\* lines 28-29: the first request is built and sent; send() returns or raises
Send1 ==
    /\ script = "006"
    /\ pc = "start"
    /\ LET req1 == utils_http_request_from_url("https://httpbin.org/uuid")
           r == QueueBuilder_send(FuzzerAPI_http_request(Some(req1)))
       IN /\ calls' = calls \o r.calls
          /\ \E outcome \in SendOutcomes :
                IF r.error # "" \/ outcome = None
                THEN pc' = "raised" /\ locals' = locals
                ELSE pc' = "send2" /\ locals' = [locals EXCEPT !.resp = outcome]
    /\ UNCHANGED <<currentTemplate, rng, scriptFrame>>

\* lines 32-42: the body of the first response is parsed (json.loads raises on a
\* body that is no JSON), the second request is built and sent, and its
\* response is added to the table when its status is 200
Send2 ==
    /\ script = "006"
    /\ pc = "send2"
    /\ LET data == json_loads(locals.resp[1].body) IN
       IF data = None
       THEN /\ pc' = "raised"
            /\ UNCHANGED <<calls, locals>>
       ELSE LET req2 == withHeader(utils_http_request_from_url("https://httpbin.org/headers"),
                                   "X-Request-ID", get_uuid(data[1]))
                r == QueueBuilder_send(FuzzerAPI_http_request(Some(req2)))
            IN \E outcome \in SendOutcomes :
                IF r.error # "" \/ outcome = None
                THEN /\ pc' = "raised"
                     /\ calls' = calls \o r.calls
                     /\ locals' = locals
                ELSE /\ pc' = "done"
                     /\ calls' = calls \o r.calls
                                 \o (IF outcome[1].status = 200
                                     THEN table_add(outcome[1]) ELSE << >>)
                     /\ locals' = [locals EXCEPT !.resp = outcome]
    /\ UNCHANGED <<currentTemplate, rng, scriptFrame>>

----------------------------------------------------------------------------
(* State of a script run *)

NoFlags == [UPPERCASE |-> FALSE, LOWERCASE |-> FALSE, UPPER_FIRST_CHAR |-> FALSE]

\* wordlists, marker_count, i: locals of 000_default.py; g: the statement of the
\* calibration loop body to run next (1..5); items, idx: the sequence a for loop
\* iterates and the position of its next element; resp: the last send() result;
\* mainStart: Len(calls) when the main phase of 000_default.py began
NoLocals ==
    [wordlists |-> << >>, marker_count |-> 0, i |-> 0, g |-> 0,
     items |-> << >>, idx |-> 0, resp |-> None, mainStart |-> 0]

----------------------------------------------------------------------------
(* The stop flag: ScriptEnvironment.py lines 13 and 423-425 *)

\* shouldStop(): return _should_stop. No bundled script calls it.
shouldStop == should_stop

\* the engine sets _should_stop while queue_tasks() is in a loop
RequestStop ==
    /\ pc = "loop"
    /\ ~should_stop
    /\ should_stop' = TRUE
    /\ UNCHANGED <<calls, currentTemplate, pc, rng, locals, configVars,
                   builder, lastOp, lastCalls, error, filterVars,
                   session, threads, responded>>

\* a session without keys
EmptySession == [key \in { } |-> 0]

\* the shared state when a script is loaded: _should_stop = False (line 13), a
\* fresh session, no handler invocation under way, no response handled
InitShared ==
    /\ should_stop = FALSE
    /\ session = EmptySession
    /\ threads = << >>
    /\ responded = << >>

----------------------------------------------------------------------------
(* Inputs of the builder specification *)

MaxCalls == 1

Urls == { <<>>, <<"u">> }

Templates == { <<>>, <<"%", "s">> }

PayloadLists == { <<>>, << <<"a">> >>, << <<"a">>, <<"b">> >> }

PayloadScalars == { <<"a">> }

LearnGroups == 0..1

Requests == { [raw |-> <<"G">>, params |-> << >>] }

ActiveTemplates == { None, Some([raw |-> <<"%", "s">>, params |-> << >>]) }

(* Inputs of the filter specification *)

MaxStack == 2

StatusCodes == { 200, 404 }

CodeLists == { <<200>>, <<200, 404>> }

Lengths == 0..3

MinBounds == { None, Some(1) }

MaxBounds == { None, Some(2) }

Bodies == { None, Some(<< >>), Some(<<"A", "b">>) }

KeywordLists == { << >>, << <<"a">> >>, << <<"A">>, <<"B">> >> }

Patterns == { << <<"a">> >>, << <<"A">>, <<"c">> >> }

Responses ==
    [status : StatusCodes, interesting : BOOLEAN, length : Lengths, text : Bodies]

----------------------------------------------------------------------------
(* Builder specification: one builder, any sequence of its methods *)

InitBuilder ==
    /\ builder = QueueBuilder_init
    /\ currentTemplate \in ActiveTemplates
    /\ calls = << >>
    /\ lastOp = "init"
    /\ lastCalls = << >>
    /\ error = ""
    /\ stack = << >>
    /\ delivered = None
    /\ evalLog = << >>
    /\ handlerCalls = 0
    /\ script = "none"
    /\ pc = "idle"
    /\ wordlist1 = None
    /\ wordlist2 = None
    /\ wordlist3 = None
    /\ rawHttpList = None
    /\ flags = NoFlags
    /\ rng = 0
    /\ locals = NoLocals
    /\ InitShared

url ==
    \E u \in Urls :
        /\ builder' = QueueBuilder_url(builder, u)
        /\ lastOp' = "url"
        /\ error' = ""
        /\ lastCalls' = << >>
        /\ UNCHANGED <<currentTemplate, calls, filterVars, scriptVars>>

raw_request ==
    \E t \in Templates :
        /\ builder' = QueueBuilder_raw_request(builder, t)
        /\ lastOp' = "raw_request"
        /\ error' = ""
        /\ lastCalls' = << >>
        /\ UNCHANGED <<currentTemplate, calls, filterVars, scriptVars>>

payloads ==
    /\ \/ \E p \in PayloadLists : builder' = QueueBuilder_payloads(builder, TRUE, p)
       \/ \E p \in PayloadScalars : builder' = QueueBuilder_payloads(builder, FALSE, p)
    /\ lastOp' = "payloads"
    /\ error' = ""
    /\ lastCalls' = << >>
    /\ UNCHANGED <<currentTemplate, calls, filterVars, scriptVars>>

learn_group ==
    \E g \in LearnGroups :
        /\ builder' = QueueBuilder_learn_group(builder, g)
        /\ lastOp' = "learn_group"
        /\ error' = ""
        /\ lastCalls' = << >>
        /\ UNCHANGED <<currentTemplate, calls, filterVars, scriptVars>>

http_request ==
    \E r \in { None } \cup { Some(q) : q \in Requests } :
        /\ builder' = QueueBuilder_http_request(builder, r)
        /\ lastOp' = "http_request"
        /\ error' = ""
        /\ lastCalls' = << >>
        /\ UNCHANGED <<currentTemplate, calls, filterVars, scriptVars>>

current_template ==
    /\ builder' = QueueBuilder_current_template(builder, currentTemplate)
    /\ lastOp' = "current_template"
    /\ error' = ""
    /\ lastCalls' = << >>
    /\ UNCHANGED <<currentTemplate, calls, filterVars, scriptVars>>

queue ==
    /\ Len(calls) < MaxCalls
    /\ lastCalls' = QueueBuilder_queue(builder, currentTemplate)
    /\ calls' = calls \o lastCalls'
    /\ lastOp' = "queue"
    /\ error' = ""
    /\ UNCHANGED <<builder, currentTemplate, filterVars, scriptVars>>

send ==
    /\ Len(calls) < MaxCalls
    /\ lastCalls' = QueueBuilder_send(builder).calls
    /\ calls' = calls \o lastCalls'
    /\ lastOp' = "send"
    /\ error' = QueueBuilder_send(builder).error
    /\ UNCHANGED <<builder, currentTemplate, filterVars, scriptVars>>

NextBuilder ==
    \/ url
    \/ raw_request
    \/ payloads
    \/ learn_group
    \/ http_request
    \/ current_template
    \/ queue
    \/ send

SpecBuilder == InitBuilder /\ [][NextBuilder]_vars

----------------------------------------------------------------------------
(* Filter specification: decorators are stacked on handle_response when the  *)
(* script is loaded, then the engine calls the decorated function            *)

InitFilter ==
    /\ stack = << >>
    /\ delivered = None
    /\ evalLog = << >>
    /\ handlerCalls = 0
    /\ builder = QueueBuilder_init
    /\ currentTemplate = None
    /\ calls = << >>
    /\ lastOp = "init"
    /\ lastCalls = << >>
    /\ error = ""
    /\ script = "none"
    /\ pc = "idle"
    /\ wordlist1 = None
    /\ wordlist2 = None
    /\ wordlist3 = None
    /\ rawHttpList = None
    /\ flags = NoFlags
    /\ rng = 0
    /\ locals = NoLocals
    /\ InitShared

\* @f applied to the function built so far
Decorate(f) ==
    /\ delivered = None
    /\ Len(stack) < MaxStack
    /\ stack' = Append(stack, f)
    /\ UNCHANGED <<delivered, evalLog, handlerCalls, builderVars, scriptVars>>

status ==
    \/ \E c \in CodeLists : Decorate(filter_status(TRUE, c))
    \/ \E c \in StatusCodes : Decorate(filter_status(FALSE, c))

status_not ==
    \/ \E c \in CodeLists : Decorate(filter_status_not(TRUE, c))
    \/ \E c \in StatusCodes : Decorate(filter_status_not(FALSE, c))

interesting == Decorate(filter_interesting)

length_range == \E a \in MinBounds, b \in MaxBounds : Decorate(filter_length_range(a, b))

contains == \E kw \in KeywordLists : Decorate(filter_contains(kw))

matches == \E p \in Patterns, ic \in BOOLEAN : Decorate(filter_matches(p, ic))

\* the engine calls handle_response(req); the wrappers keep no state, so one
\* call per behaviour covers every call
Deliver ==
    \E req \in Responses :
        /\ delivered = None
        /\ delivered' = Some(req)
        /\ evalLog' = handle_response(stack, req).evals
        /\ handlerCalls' = handle_response(stack, req).handled
        /\ UNCHANGED <<stack, builderVars, scriptVars>>

NextFilter ==
    \/ status
    \/ status_not
    \/ interesting
    \/ length_range
    \/ contains
    \/ matches
    \/ Deliver

SpecFilter == InitFilter /\ [][NextFilter]_vars

----------------------------------------------------------------------------
(* Script specification: one run of one script's queue_tasks() *)

MaxItems == 2

Seeds == { 0, 1 }

FlagChoices == [UPPERCASE : BOOLEAN, LOWERCASE : BOOLEAN, UPPER_FIRST_CHAR : BOOLEAN]

\* the active template: none, or one with 0, 1 or 2 markers
TemplateChoices ==
    { None,
      Some([raw |-> <<"G">>, params |-> << >>]),
      Some([raw |-> <<"G", "%", "s">>, params |-> << >>]),
      Some([raw |-> <<"%", "s", "%", "%", "s">>, params |-> << >>]) }

Wordlist1Choices == { None, Some(<< <<"a">>, <<"b">> >>) }

Wordlist2Choices == { None, Some(<< >>), Some(<< <<"c", "D">>, <<"E", "f">> >>) }

Wordlist3Choices == { None, Some(<< <<"g">> >>) }

Parameters ==
    [name : { "id" }, value : { "1" }, type : { "URL", "BODY" }, fault : BOOLEAN]

ParameterLists ==
    { << >> } \cup { <<x>> : x \in Parameters }
    \cup { <<[name |-> "id", value |-> "1", type |-> "URL", fault |-> FALSE],
             [name |-> "q", value |-> "2", type |-> "URL", fault |-> f]>> : f \in BOOLEAN }

CapturedItems ==
    { [request |-> [raw |-> <<"GET", "/p">>, params |-> ps], fault |-> f] :
        ps \in ParameterLists, f \in BOOLEAN }

RECURSIVE SeqsUpTo(_, _)
\* the sequences over S of length at most n
SeqsUpTo(S, n) ==
    IF n = 0
    THEN { << >> }
    ELSE LET shorter == SeqsUpTo(S, n - 1) IN
         shorter \cup { Append(q, x) : q \in shorter, x \in S }

Scripts == { "000", "001", "002", "003", "005c", "005l", "006" }

InitScripts ==
    /\ script \in Scripts
    /\ pc = "start"
    /\ locals = NoLocals
    /\ calls = << >>
    /\ \/ /\ script = "000"
          /\ currentTemplate \in TemplateChoices
          /\ wordlist1 \in Wordlist1Choices
          /\ wordlist2 \in Wordlist2Choices
          /\ wordlist3 \in Wordlist3Choices
          /\ flags \in FlagChoices
          /\ rng \in Seeds
          /\ rawHttpList = None
       \/ /\ script \in { "001", "002", "005c", "006" }
          /\ currentTemplate = None
          /\ wordlist1 \in Wordlist1Choices
          /\ wordlist2 = None
          /\ wordlist3 = None
          /\ flags = NoFlags
          /\ rng = 0
          /\ rawHttpList = None
       \/ /\ script \in { "003", "005l" }
          /\ currentTemplate = None
          /\ wordlist1 = None
          /\ wordlist2 = None
          /\ wordlist3 = None
          /\ flags = NoFlags
          /\ rng = 0
          /\ rawHttpList \in { None } \cup { Some(q) : q \in SeqsUpTo(CapturedItems, MaxItems) }
    /\ builder = QueueBuilder_init
    /\ lastOp = "init"
    /\ lastCalls = << >>
    /\ error = ""
    /\ stack = << >>
    /\ delivered = None
    /\ evalLog = << >>
    /\ handlerCalls = 0
    /\ InitShared

NextScripts ==
    \/ Start000
    \/ Calibrate
    \/ Sleep
    \/ BatteringRam
    \/ Pitchfork
    \/ Start001
    \/ Queue001
    \/ Start002
    \/ Queue002
    \/ Start003
    \/ Inject003
    \/ Custom005
    \/ Start005
    \/ Queue005
    \/ Send1
    \/ Send2
    \/ done
    \/ RequestStop

SpecScripts == InitScripts /\ [][NextScripts]_vars

----------------------------------------------------------------------------
(* Response specification: a run of 000_default.py, then the engine calls    *)
(* the script's handle_response with the responses of queued tasks, in any   *)
(* order                                                                     *)

MaxResponses == 2

\* the marks the engine may give a response of learn group g: a response of
\* learn group 0 is never marked interesting
Interesting(g) == IF g = 0 THEN { FALSE } ELSE BOOLEAN

\* 000_default.py lines 24-32: handle_response, decorated with
\* @filter.interesting(), calls table.add(req)
handle_response_000(req) ==
    IF handle_response(<< filter_interesting >>, req).handled = 1
    THEN table_add(req)
    ELSE << >>

InitResponses ==
    /\ script = "000"
    /\ pc = "start"
    /\ locals = NoLocals
    /\ calls = << >>
    /\ currentTemplate \in TemplateChoices
    /\ wordlist1 \in Wordlist1Choices
    /\ wordlist2 = None
    /\ wordlist3 \in Wordlist3Choices
    /\ flags = NoFlags
    /\ rng = 0
    /\ rawHttpList = None
    /\ builder = QueueBuilder_init
    /\ lastOp = "init"
    /\ lastCalls = << >>
    /\ error = ""
    /\ stack = << >>
    /\ delivered = None
    /\ evalLog = << >>
    /\ handlerCalls = 0
    /\ InitShared

\* the engine has executed queued task k (the k-th call of the run) and calls
\* handle_response with its response
Respond ==
    /\ script = "000"
    /\ pc = "returned"
    /\ Len(responded) < MaxResponses
    /\ \E k \in 1..Len(calls) :
          /\ calls[k].op \in { "queueHttpRequest", "queueRawTemplate",
                                "queuePayloads", "queueUrl" }
          /\ \A j \in 1..Len(responded) : responded[j] # k
          /\ \E mark \in Interesting(calls[k].learn_group[1]) :
                LET req == [task |-> k, learn_group |-> calls[k].learn_group[1],
                            interesting |-> mark]
                IN calls' = calls \o handle_response_000(req)
          /\ responded' = Append(responded, k)
    /\ UNCHANGED <<currentTemplate, pc, rng, locals, configVars,
                   builder, lastOp, lastCalls, error, filterVars,
                   should_stop, session, threads>>

NextResponses ==
    \/ Start000
    \/ Calibrate
    \/ Sleep
    \/ BatteringRam
    \/ Pitchfork
    \/ done
    \/ Respond

SpecResponses == InitResponses /\ [][NextResponses]_vars

----------------------------------------------------------------------------
(* Session specification: handler invocations on the engine's worker threads *)
(* each call session.increment(key) once on a fresh session                  *)

MaxThreads == 4

Keys == { "x", "y" }

\* handler.sessionIncrement(key) of the engine: an atomic fetch-add that takes
\* a missing key as zero and returns the new value
sessionIncrement(s, key) ==
    LET old == IF key \in DOMAIN s THEN s[key] ELSE 0 IN
    [session |-> [k \in DOMAIN s \cup { key } |-> IF k = key THEN old + 1 ELSE s[k]],
     result |-> old + 1]

\* session.increment that stores 1 whatever the key holds
session_increment_StartsOver(s, key) ==
    [session |-> [k \in DOMAIN s \cup { key } |-> IF k = key THEN 1 ELSE s[k]],
     result |-> 1]

\* session.increment(key), lines 298-300: return handler.sessionIncrement(key)
session_increment(s, key) == sessionIncrement(s, key)

InitSession ==
    /\ session = EmptySession
    /\ threads = [t \in 1..MaxThreads |-> [pc |-> "ready", key |-> "", result |-> 0]]
    /\ should_stop = FALSE
    /\ responded = << >>
    /\ builder = QueueBuilder_init
    /\ currentTemplate = None
    /\ calls = << >>
    /\ lastOp = "init"
    /\ lastCalls = << >>
    /\ error = ""
    /\ stack = << >>
    /\ delivered = None
    /\ evalLog = << >>
    /\ handlerCalls = 0
    /\ script = "none"
    /\ pc = "idle"
    /\ wordlist1 = None
    /\ wordlist2 = None
    /\ wordlist3 = None
    /\ rawHttpList = None
    /\ flags = NoFlags
    /\ rng = 0
    /\ locals = NoLocals

\* the handler invocation on thread t calls session.increment(key) and gets
\* its result
increment ==
    \E t \in DOMAIN threads, key \in Keys :
        /\ threads[t].pc = "ready"
        /\ LET r == session_increment(session, key) IN
              /\ session' = r.session
              /\ threads' = [threads EXCEPT
                                ![t] = [pc |-> "returned", key |-> key, result |-> r.result]]
        /\ UNCHANGED <<should_stop, responded, builderVars, filterVars,
                       script, pc, wordlist1, wordlist2, wordlist3, rawHttpList,
                       flags, rng, locals>>

NextSession == increment

SpecSession == InitSession /\ [][NextSession]_vars

----------------------------------------------------------------------------
(* Claims about QueueBuilder (checked under SpecBuilder) *)

\* C1 as stated: after queue() on any reachable builder exactly one enqueue call
\* was made, of the kind that wins by prepared-request > raw-template+payloads >
\* payloads-only (active template if any, else bare) > url-only, with the learn
\* group; "set" meaning the setter was called.
C1_Original ==
    lastOp = "queue" =>
        /\ Len(lastCalls) = 1
        /\ lastCalls[1].learn_group = Some(builder.learn_group)
        /\ lastCalls[1].op =
              IF builder.http_request # None THEN "queueHttpRequest"
              ELSE IF builder.template # None /\ builder.payloads # None
                   THEN "queueRawTemplate"
              ELSE IF builder.payloads # None
                   THEN IF currentTemplate # None THEN "queueRawTemplate"
                        ELSE "queuePayloads"
              ELSE "queueUrl"

\* C1 amended: queue() makes exactly one enqueue call whenever some target is
\* effectively set (non-None prepared request, non-empty template, payload list
\* or URL), chosen by prepared-request > raw-template (with whatever payload list
\* is set, even none) > payloads (by raw template against the active template if
\* one exists, else bare) > url, and passes the learn group; with no target
\* effectively set it makes no call.
C1_QueuePrecedence ==
    lastOp = "queue" =>
        LET lg == Some(builder.learn_group) IN
        IF builder.http_request # None
        THEN lastCalls =
               << Call("queueHttpRequest", builder.http_request, None, None, None, lg) >>
        ELSE IF TruthySeq(builder.template)
        THEN lastCalls =
               << Call("queueRawTemplate", None, builder.url, builder.template,
                       builder.payloads, lg) >>
        ELSE IF TruthySeq(builder.payloads) /\ currentTemplate # None
        THEN lastCalls =
               << Call("queueRawTemplate", None, None, Some(currentTemplate[1].raw),
                       builder.payloads, lg) >>
        ELSE IF TruthySeq(builder.payloads)
        THEN lastCalls = << Call("queuePayloads", None, None, None, builder.payloads, lg) >>
        ELSE IF TruthySeq(builder.url)
        THEN lastCalls = << Call("queueUrl", None, builder.url, None, None, lg) >>
        ELSE lastCalls = << >>

\* C1 witness: queue() ran on a builder with raw template, payloads and URL all
\* set, a non-zero learn group and no prepared request, and enqueued by raw template
C1_Witness ==
    /\ lastOp = "queue"
    /\ builder.http_request = None
    /\ TruthySeq(builder.template)
    /\ TruthySeq(builder.payloads)
    /\ TruthySeq(builder.url)
    /\ builder.learn_group = 1
    /\ Len(lastCalls) = 1
    /\ lastCalls[1].op = "queueRawTemplate"

\* C2 as stated: send() raises and calls nothing whenever no target setter was
\* called, and whenever raw_request() was called while the payload list is unset
\* or empty.
C2_Original ==
    ( /\ lastOp = "send"
      /\ \/ /\ builder.http_request = None
            /\ builder.template = None
            /\ builder.payloads = None
            /\ builder.url = None
         \/ /\ builder.template # None
            /\ ~TruthySeq(builder.payloads) )
    => (error = "ValueError" /\ lastCalls = << >>)

\* C2 amended: send() raises the configuration error and calls nothing whenever
\* no prepared request is set and either (a) the raw template is non-empty while
\* the payload list is unset or empty, or (b) the template, the payload list and
\* the URL are each unset or empty.
C2_SendConfigError ==
    ( /\ lastOp = "send"
      /\ builder.http_request = None
      /\ \/ TruthySeq(builder.template) /\ ~TruthySeq(builder.payloads)
         \/ /\ ~TruthySeq(builder.template)
            /\ ~TruthySeq(builder.payloads)
            /\ ~TruthySeq(builder.url) )
    => (error = "ValueError" /\ lastCalls = << >>)

\* C2 witness: send() raised on a raw template with an empty payload list
C2_Witness ==
    /\ lastOp = "send"
    /\ builder.http_request = None
    /\ TruthySeq(builder.template)
    /\ builder.payloads = Some(<< >>)
    /\ error = "ValueError"
    /\ lastCalls = << >>

\* C10 as stated: a send() on a payload list of more than one value hands the
\* engine the first value alone.
C10_SendFirstPayloadOnly ==
    ( /\ lastOp = "send"
      /\ builder.http_request = None
      /\ TruthySeq(builder.payloads)
      /\ Len(builder.payloads[1]) > 1 )
    => ( /\ Len(lastCalls) = 1
         /\ lastCalls[1].payloads = Some(<< builder.payloads[1][1] >>) )

\* the builder carries a target specification: a prepared request, or a
\* non-empty raw template, payload list or URL
HasTarget ==
    \/ builder.http_request # None
    \/ TruthySeq(builder.template)
    \/ TruthySeq(builder.payloads)
    \/ TruthySeq(builder.url)

EnqueueOps == {"queueHttpRequest", "queueRawTemplate", "queuePayloads", "queueUrl"}

\* C11: queue() never raises; on a builder without target specification it
\* makes no engine call at all, and on a builder with one it makes exactly one
\* enqueue call.
C11_QueueNoOp ==
    lastOp = "queue" =>
        /\ error = ""
        /\ ~HasTarget => lastCalls = << >>
        /\ HasTarget => (Len(lastCalls) = 1 /\ lastCalls[1].op \in EnqueueOps)

\* C11 witness: queue() ran on a builder whose only setter called was
\* learn_group(1), and called nothing
C11_Witness ==
    /\ lastOp = "queue"
    /\ builder.http_request = None
    /\ builder.template = None
    /\ builder.payloads = None
    /\ builder.url = None
    /\ builder.learn_group = 1
    /\ lastCalls = << >>
    /\ error = ""

SendOps == {"sendHttpRequest", "sendRawTemplate", "sendPayloads", "sendUrl"}

\* C12: whatever the builder holds, learn group included, send() makes at most
\* one engine call, that call is one of the synchronous sends (never a Table
\* append), and it carries no learn group.
C12_SendBypassesLearning ==
    lastOp = "send" =>
        /\ Len(lastCalls) <= 1
        /\ \A k \in 1..Len(lastCalls) :
               /\ lastCalls[k].op \in SendOps
               /\ lastCalls[k].learn_group = None

\* C12 witness: send() ran on a builder with learn_group(1) set and made its call
C12_Witness ==
    /\ lastOp = "send"
    /\ builder.learn_group = 1
    /\ Len(lastCalls) = 1
    /\ error = ""

\* a non-empty raw template, no prepared request, payloads unset or empty
TemplateWithoutPayloads ==
    /\ TruthySeq(builder.template)
    /\ builder.http_request = None
    /\ ~TruthySeq(builder.payloads)

\* C20: on a builder with a raw template, no prepared request and payloads
\* unset or empty, send() raises the configuration error and calls nothing,
\* while queue() enqueues by raw template, handing over the unset or empty
\* payload list as it is.
C20_QueueSendDisagree ==
    TemplateWithoutPayloads =>
        /\ lastOp = "send" => (error = "ValueError" /\ lastCalls = << >>)
        /\ lastOp = "queue" =>
               /\ error = ""
               /\ lastCalls =
                    << Call("queueRawTemplate", None, builder.url, builder.template,
                            builder.payloads, Some(builder.learn_group)) >>

\* C20 witness: queue() ran on a raw template with an empty payload list and
\* enqueued it
C20_Witness ==
    /\ lastOp = "queue"
    /\ TemplateWithoutPayloads
    /\ builder.payloads = Some(<< >>)
    /\ Len(lastCalls) = 1
    /\ lastCalls[1].op = "queueRawTemplate"
    /\ lastCalls[1].payloads = Some(<< >>)

----------------------------------------------------------------------------
(* Claims about the filter decorators (checked under SpecFilter) *)

\* C3: for every stack of filters and every response, the handler runs zero
\* times if some filter's predicate rejects the response and exactly once if
\* all accept it.
C3_FilterGate ==
    delivered # None =>
        handlerCalls =
            IF \A k \in 1..Len(stack) : Predicate(stack[k], delivered[1]) THEN 1 ELSE 0

\* C3 witness: two stacked filters, the outer accepted and the inner rejected
\* the response, and the handler did not run
C3_Witness ==
    /\ delivered # None
    /\ Len(stack) = 2
    /\ Predicate(stack[2], delivered[1])
    /\ ~Predicate(stack[1], delivered[1])
    /\ handlerCalls = 0

C14_LengthRange ==
    ( /\ delivered # None
      /\ Len(stack) = 1
      /\ stack[1].kind = "length_range" )
    => LET L == delivered[1].length
           lo == stack[1].min
           hi == stack[1].max
       IN  /\ handlerCalls \in {0, 1}
           /\ handlerCalls = 1 <=>
                 /\ (lo = None \/ L >= lo[1])
                 /\ (hi = None \/ L <= hi[1])
           /\ (lo # None /\ L = lo[1] /\ (hi = None \/ L <= hi[1])) => handlerCalls = 1
           /\ (hi # None /\ L = hi[1] /\ (lo = None \/ L >= lo[1])) => handlerCalls = 1

\* C14 witness: length_range(1, 2) let a response of length 2, the upper bound,
\* through to the handler
C14_Witness ==
    /\ delivered # None
    /\ Len(stack) = 1
    /\ stack[1].kind = "length_range"
    /\ stack[1].min = Some(1)
    /\ stack[1].max = Some(2)
    /\ delivered[1].length = 2
    /\ handlerCalls = 1

----------------------------------------------------------------------------
(* Claims about the scripts (checked under SpecScripts) *)

Ended == pc \in { "returned", "raised" }

QueueOrSendOps ==
    { "queueHttpRequest", "queueRawTemplate", "queuePayloads", "queueUrl",
      "sendHttpRequest", "sendRawTemplate", "sendPayloads", "sendUrl" }

DoneCalls == { k \in 1..Len(calls) : calls[k].op = "done" }

\* C5 as stated: in every run of every script's queue_tasks(), done() is
\* signalled exactly once, and no queue() or send() call follows it.
C5_DoneExactlyOnce ==
    /\ Ended => Cardinality(DoneCalls) = 1
    /\ \A k \in DoneCalls :
          \A j \in (k + 1)..Len(calls) : calls[j].op \notin QueueOrSendOps

\* C6 as stated: every execution of queue_tasks() calls done(), also when a
\* synchronous send() fails or the processing of one item raises.
C6_DoneOnEveryPath == Ended => DoneCalls # { }

\* the tasks of one 000_default.py run: the enqueue calls, and those of the
\* main phase
IsTask(c) == c.op \in { "queueHttpRequest", "queueRawTemplate", "queuePayloads", "queueUrl" }

MainTasks ==
    SelectSeq(SubSeq(calls, locals.mainStart + 1, Len(calls)), IsTask)

InMainPhase == script = "000" /\ pc \in { "loop", "done", "returned" }

IsRandom(text) ==
    \A k \in 1..Len(text) : \E n \in 1..Len(Candidates) : Candidates[n] = text[k]

\* the calibration category a payload text belongs to by its shape (0: none)
CategoryOf(text) ==
    LET n == Len(text) IN
    CASE n > 1000 /\ (\A k \in 1..n : text[k] = "A") -> 5
      [] n \in { 6, 9 } /\ IsRandom(text) -> 1
      [] n \in { 7, 10 } /\ text[n] = "/" /\ IsRandom(SubSeq(text, 1, n - 1)) -> 2
      [] n \in { 11, 14 } /\ SubSeq(text, 1, 5) = <<"a", "d", "m", "i", "n">>
            /\ IsRandom(SubSeq(text, 6, n)) -> 3
      [] n \in { 15, 18 }
            /\ SubSeq(text, 1, 9) = <<".", "h", "t", "a", "c", "c", "e", "s", "s">>
            /\ IsRandom(SubSeq(text, 10, n)) -> 4
      [] OTHER -> 0

\* the category of a task of 000_default.py: that of its first payload
TaskCategory(c) == CategoryOf(c.payloads[1][1])

\* C7: in the default script every calibration task carries the learn group of
\* its payload category (1 random, 2 random with trailing "/", 3 "admin" prefix,
\* 4 ".htaccess" prefix, 5 long run of "A"), and all calibration tasks, two of
\* each of the five groups, are queued before the first main task.
C7_CalibrationTagging ==
    script = "000" =>
        LET tasks == SelectSeq(calls, IsTask)
            cal == { k \in 1..Len(tasks) : TaskCategory(tasks[k]) # 0 }
            main == { k \in 1..Len(tasks) : TaskCategory(tasks[k]) = 0 }
        IN /\ \A k \in cal : tasks[k].learn_group = Some(TaskCategory(tasks[k]))
           /\ \A k \in cal : \A j \in main : k < j
           /\ (main # { } /\ locals.marker_count >= 1) =>
                 \A g \in 1..5 :
                    Cardinality({ k \in cal : TaskCategory(tasks[k]) = g }) = 2
           /\ pc = "calibrate" => main = { }

\* C7 witness: a run against a template with two markers ended with ten
\* calibration tasks followed by main tasks
C7_Witness ==
    /\ script = "000"
    /\ pc = "returned"
    /\ locals.marker_count = 2
    /\ locals.mainStart = 10
    /\ Len(MainTasks) > 0
    /\ TaskCategory(calls[4]) = 4

\* the configured wordlists concatenated in configured order
AllConfigured == _get_payloads_1 \o _get_payloads_2 \o _get_payloads_3

\* C8: battering-ram mode (marker count m > 1): the main phase produces exactly
\* one task per value of the configured wordlists concatenated in configured
\* order, in that order, each with the (case-transformed) value repeated m times.
C8_BatteringRam ==
    (InMainPhase /\ locals.marker_count > 1) =>
        /\ Len(MainTasks) = locals.idx - 1
        /\ pc # "loop" => Len(MainTasks) = Len(AllConfigured)
        /\ \A k \in 1..Len(MainTasks) :
              /\ Len(MainTasks[k].payloads[1]) = locals.marker_count
              /\ \A n \in 1..locals.marker_count :
                    MainTasks[k].payloads[1][n] = apply_transformations(AllConfigured[k])

\* C8 witness: a run against a template with two markers and all three
\* wordlists configured ended with five main tasks
C8_Witness ==
    /\ script = "000"
    /\ pc = "returned"
    /\ locals.marker_count = 2
    /\ Len(AllConfigured) = 5
    /\ Len(MainTasks) = 5

\* the wordlists that take part: the configured ones that are not empty
Participating ==
    SelectSeq(<<_get_payloads_1, _get_payloads_2, _get_payloads_3>>,
              LAMBDA w : Len(w) > 0)

RECURSIVE SizeProduct(_, _)
\* the product of the sizes of lists[j..] (1 for no list)
SizeProduct(lists, j) ==
    IF j > Len(lists) THEN 1 ELSE Len(lists[j]) * SizeProduct(lists, j + 1)

\* the k-th element (from 1) of the Cartesian product in lexicographic order,
\* the first list varying slowest
LexTuple(lists, k) ==
    [j \in 1..Len(lists) |->
        lists[j][(((k - 1) \div SizeProduct(lists, j + 1)) % Len(lists[j])) + 1]]

PitchforkAsClaimed ==
    /\ Len(MainTasks) = locals.idx - 1
    /\ pc # "loop" => Len(MainTasks) = SizeProduct(Participating, 1)
    /\ \A k \in 1..Len(MainTasks) :
          MainTasks[k].payloads =
              Some([j \in 1..Len(Participating) |->
                       apply_transformations(LexTuple(Participating, k)[j])])

\* C9 as stated: pitchfork mode (m = 1) with wordlists of sizes s1..sn produces
\* exactly s1*...*sn tasks, one per element of the Cartesian product, in
\* lexicographic order with the first wordlist varying slowest.
C9_Original ==
    (InMainPhase /\ locals.marker_count = 1) => PitchforkAsClaimed

\* C9 amended: the same, provided at least one configured wordlist is not
\* empty; with no non-empty wordlist the main phase produces no task. E.g.
\* wordlist 1 = ["a", "b"] alone and no template yields exactly two tasks, with
\* payload lists ["a"] then ["b"].
C9_Pitchfork ==
    (InMainPhase /\ locals.marker_count = 1) =>
        /\ Len(Participating) >= 1 => PitchforkAsClaimed
        /\ Len(Participating) = 0 => MainTasks = << >>
        /\ ( /\ pc # "loop"
             /\ currentTemplate = None
             /\ flags = NoFlags
             /\ wordlist1 = Some(<< <<"a">>, <<"b">> >>)
             /\ _get_payloads_2 = << >>
             /\ _get_payloads_3 = << >> )
           => MainTasks =
                << Call("queuePayloads", None, None, None, Some(<< <<"a">> >>), Some(0)),
                   Call("queuePayloads", None, None, None, Some(<< <<"b">> >>), Some(0)) >>

\* C9 witness: a run without template and with all three wordlists configured
\* ended with the four tasks of the product
C9_Witness ==
    /\ script = "000"
    /\ pc = "returned"
    /\ currentTemplate = None
    /\ locals.marker_count = 1
    /\ Len(Participating) = 3
    /\ Len(MainTasks) = 4

\* the wordlist values main task k is built from: the k-th configured value
\* repeated once per marker in battering-ram mode, the k-th tuple of the
\* product otherwise
RawValues(k) ==
    IF locals.marker_count > 1
    THEN Repeat(AllConfigured[k], locals.marker_count)
    ELSE LexTuple(Participating, k)

\* C13: in both combination modes every element of every main-phase payload
\* list is its wordlist value under exactly one transform: uppercase if
\* UPPERCASE is enabled, else lowercase if LOWERCASE is, else str.capitalize()
\* if UPPER_FIRST_CHAR is, else the value itself. With UPPERCASE and LOWERCASE
\* both enabled the result is the uppercase one; with none enabled the value
\* is unchanged.
C13_CasePriority ==
    InMainPhase =>
        \A k \in 1..Len(MainTasks) :
            LET got == MainTasks[k].payloads[1]
                raw == RawValues(k)
            IN  /\ Len(got) = Len(raw)
                /\ \A n \in 1..Len(raw) :
                      /\ flags.UPPERCASE => got[n] = upper(raw[n])
                      /\ (~flags.UPPERCASE /\ flags.LOWERCASE) => got[n] = lower(raw[n])
                      /\ (~flags.UPPERCASE /\ ~flags.LOWERCASE /\ flags.UPPER_FIRST_CHAR)
                            => got[n] = capitalize(raw[n])
                      /\ flags = NoFlags => got[n] = raw[n]

\* C13 witness: a pitchfork run with UPPERCASE and LOWERCASE both enabled over
\* the mixed-case second wordlist queued the tuple ("A", "CD")
C13_Witness ==
    /\ InMainPhase
    /\ flags.UPPERCASE
    /\ flags.LOWERCASE
    /\ locals.marker_count = 1
    /\ \E k \in 1..Len(MainTasks) :
          /\ RawValues(k) = << <<"a">>, <<"c", "D">> >>
          /\ MainTasks[k].payloads = Some(<< <<"A">>, <<"C", "D">> >>)

\* the parameters of a captured request that are handled before anything
\* raises: none if request.parameters() raises, else those before the first
\* parameter whose handling raises
HandledParams(req_resp) ==
    IF req_resp.fault
    THEN << >>
    ELSE LET ps == req_resp.request.params
             bad == { k \in 1..Len(ps) : ps[k].fault }
             n == IF bad = { } THEN Len(ps)
                  ELSE (CHOOSE k \in bad : \A j \in bad : k <= j) - 1
         IN SubSeq(ps, 1, n)

\* the tasks owed to one captured request: one per handled URL parameter, in
\* order, each the request with PAYLOAD as that parameter's value
TasksOwed(req_resp) ==
    LET ps == SelectSeq(HandledParams(req_resp), LAMBDA q : q.type = "URL") IN
    [k \in 1..Len(ps) |->
        Call("queueHttpRequest",
             Some(withUpdatedParameters(req_resp.request, ps[k].name, PAYLOAD, ps[k].type)),
             None, None, None, Some(0))]

RECURSIVE TasksOwedUpTo(_, _)
\* the tasks owed to the first n captured requests, in order
TasksOwedUpTo(items, n) ==
    IF n = 0 THEN << >> ELSE TasksOwedUpTo(items, n - 1) \o TasksOwed(items[n])

\* C16: in a run of the URL-parameter injection script nothing an item raises
\* leaves queue_tasks(): after each iteration the queued tasks are those owed
\* to the items iterated so far, each item counted on its own (a raising item
\* takes nothing from the items before or after it), and the run ends by
\* returning after done().
C16_BatchSurvivesItemError ==
    script = "003" =>
        /\ pc # "raised"
        /\ pc = "loop" =>
              calls = TasksOwedUpTo(templates_all, locals.idx - 1)
        /\ pc = "done" =>
              calls = TasksOwedUpTo(templates_all, Len(templates_all))
        /\ pc = "returned" =>
              calls = TasksOwedUpTo(templates_all, Len(templates_all)) \o FuzzerAPI_done

\* C16 witness: a run over two captured requests, the first of which raised in
\* request.parameters(), returned after queueing the task of the second and done()
C16_Witness ==
    /\ script = "003"
    /\ pc = "returned"
    /\ Len(templates_all) = 2
    /\ templates_all[1].fault
    /\ ~templates_all[2].fault
    /\ Len(TasksOwed(templates_all[2])) = 1
    /\ Len(calls) = 2
    /\ calls[1].op = "queueHttpRequest"
    /\ calls[2].op = "done"

\* the tasks queued by the calibration loop of a 000_default.py run
CalibrationTasks ==
    SelectSeq(SubSeq(calls, 1, IF pc \in { "calibrate", "sleep" }
                                THEN Len(calls) ELSE locals.mainStart),
              IsTask)

\* C19: once the calibration loop of the default script has ended it has
\* queued exactly ten tasks with learn groups 1,2,3,4,5,1,2,3,4,5 in this
\* order if the marker count is at least 1, and no task at all if the marker
\* count is 0 (an active template without %s).
C19_CalibrationCount ==
    (script = "000" /\ pc \in { "sleep", "loop", "done", "returned" }) =>
        /\ locals.marker_count >= 1 =>
              /\ Len(CalibrationTasks) = 10
              /\ \A k \in 1..10 :
                    CalibrationTasks[k].learn_group = Some(((k - 1) % 5) + 1)
        /\ locals.marker_count = 0 => CalibrationTasks = << >>
        /\ (currentTemplate # None /\ ~In(<<"%", "s">>, currentTemplate[1].raw))
              => (locals.marker_count = 0 /\ CalibrationTasks = << >>)

\* C19 witness: a run against an active template without marker returned
\* having queued main tasks and no calibration task
C19_Witness ==
    /\ script = "000"
    /\ pc = "returned"
    /\ currentTemplate # None
    /\ locals.marker_count = 0
    /\ CalibrationTasks = << >>
    /\ Len(MainTasks) > 0

\* C17 as stated: once a stop has been requested, no later iteration of an
\* enumeration loop queues a task.
C17_StopHonoured ==
    [][ should_stop => SelectSeq(calls', IsTask) = SelectSeq(calls, IsTask) ]_vars

----------------------------------------------------------------------------
(* Claims about the session (checked under SpecSession) *)

\* the handler invocations that have returned from session.increment(key)
Incremented(key) ==
    { t \in DOMAIN threads : threads[t].pc = "returned" /\ threads[t].key = key }

----------------------------------------------------------------------------
(* Claims about response handling (checked under SpecResponses) *)

\* the Table appends made so far
TableAppends == SelectSeq(calls, LAMBDA c : c.op = "addToTable")

\* C18: every main-phase task of the default script, battering-ram or
\* pitchfork, carries learn group 0; and, the engine never marking a response
\* of learn group 0 interesting, every response the decorated handler appends
\* to the Table is that of a calibration task, never that of a main-phase task.
C18_MainPhaseGroupZero ==
    script = "000" =>
        /\ InMainPhase =>
              \A k \in 1..Len(MainTasks) : MainTasks[k].learn_group = Some(0)
        /\ \A n \in 1..Len(TableAppends) :
              LET req == TableAppends[n].http_request[1] IN
              /\ req.task <= locals.mainStart
              /\ req.learn_group \in 1..5

\* C18 witness: the handler was called with the response of a main-phase task
\* and with an interesting response of a calibration task, and the Table has
\* one entry
C18_Witness ==
    /\ script = "000"
    /\ pc = "returned"
    /\ \E j \in 1..Len(responded) : responded[j] > locals.mainStart
    /\ Len(TableAppends) = 1

====
